---------------------------- MODULE Spec2Model ----------------------------
(***************************************************************************)
(* jagt: a terminal browser for a repository's commit history.             *)
(*                                                                         *)
(* The module models src/src/jagt/app.py:                                  *)
(*   - git_log / git_show: the call of the external tool and the decoding  *)
(*     of its NUL-delimited output (SpecSource);                           *)
(*   - CommitDiffView: the truncated display of a diff (SpecView);         *)
(*   - LogScreen / LogView / run: the session that ties the commit list to *)
(*     the details pane and the exit status of the process (Spec).         *)
(*                                                                         *)
(* Bytes are the naturals 0..255 and a bytes object is a sequence of them; *)
(* a str is a sequence of Unicode code points.                             *)
(***************************************************************************)
EXTENDS Integers, Sequences, FiniteSets, TLC

VARIABLES
    pc,             \* position of the modelled run
    sim,            \* the simulated external tool: what it was told to print
    run,            \* the finished subprocess: found, returncode, output
    result,         \* what git_log / git_show returned or raised
    entries,        \* LogView.entries
    options,        \* LogView: ids of the options added, in order
    highlighted,    \* LogView.highlighted: 0 for None, else a 1-based index
    queue,          \* OptionHighlighted messages posted and not yet handled
    commit_details, \* CommitDetailsView.commit_details (bound to the 3 panes)
    theme,          \* CommitDiffView.theme
    diff_text,      \* CommitDiffView: the code of the Syntax shown
    diff_warning,   \* CommitDiffView: class -warning-max-diff is set
    diff_title,     \* CommitDiffView: border_title of the inner Static
    view_title,     \* CommitDiffView.border_title
    return_code,    \* App.return_code
    exit_status,    \* the argument of sys.exit in run()
    calls,          \* external-tool invocations made so far, in order
    handled,        \* OptionHighlighted messages handled so far, in order
    fetched,        \* the CommitDetails git_show returned last, if any
    raised          \* GitCommandError caught by the screen, if any

vars == <<pc, sim, run, result, entries, options, highlighted, queue,
          commit_details, theme, diff_text, diff_warning, diff_title,
          view_title, return_code, exit_status, calls, handled, fetched,
          raised>>

\* Python's None; a value that may be None is None or Some(v).
None == <<>>
Some(v) == <<v>>

-----------------------------------------------------------------------------
(* Bounds of the model.                                                    *)

MaxLines == 2       \* lines of a simulated `git log` output
MaxFields == 5      \* NUL-joined fields of one simulated log line
MaxTail == 4        \* chunks of the trailing segment of a `git show` output
MaxSmall == 3       \* characters of a short diff shown by the diff view
MaxOver == 1        \* characters of a long diff beyond MAX_DIFF_CHARS
MaxCommits == 2     \* commits of the repository of a session
MaxMoves == 2       \* cursor moves of the user in a session

-----------------------------------------------------------------------------
(* bytes and str primitives used by the parser.                            *)

NUL == 0
LF == 10
CR == 13

Min(a, b) == IF a < b THEN a ELSE b

\* The index of the first element of s equal to c, or 0.
RECURSIVE FindFrom(_, _, _)
FindFrom(s, c, i) ==
    IF i > Len(s) THEN 0
    ELSE IF s[i] = c THEN i
    ELSE FindFrom(s, c, i + 1)

Find(s, c) == FindFrom(s, c, 1)

\* s.split(sep, maxsplit): at most maxsplit cuts, from the left; what is
\* left after the last cut is kept whole.
RECURSIVE Split(_, _, _)
Split(s, sep, maxsplit) ==
    LET i == Find(s, sep) IN
    IF maxsplit = 0 \/ i = 0 THEN <<s>>
    ELSE <<SubSeq(s, 1, i - 1)>>
         \o Split(SubSeq(s, i + 1, Len(s)), sep, maxsplit - 1)

\* The index of the first line break (LF or CR) of s, or 0.
RECURSIVE FindBreak(_, _)
FindBreak(s, i) ==
    IF i > Len(s) THEN 0
    ELSE IF s[i] = LF \/ s[i] = CR THEN i
    ELSE FindBreak(s, i + 1)

\* bytes.splitlines(): lines end at LF, CR or CR LF; the breaks are dropped
\* and no empty line follows a final break.
RECURSIVE splitlines(_)
splitlines(s) ==
    IF s = <<>> THEN <<>>
    ELSE LET i == FindBreak(s, 1) IN
         IF i = 0 THEN <<s>>
         ELSE LET crlf == s[i] = CR /\ i < Len(s) /\ s[i + 1] = LF
                  next == IF crlf THEN i + 2 ELSE i + 1
              IN <<SubSeq(s, 1, i - 1)>>
                 \o splitlines(SubSeq(s, next, Len(s)))

IsCont(b) == b >= 128 /\ b <= 191

\* bytes.decode("utf-8"), strict: [ok, text]. ok is FALSE where Python
\* raises UnicodeDecodeError (a stray or missing continuation byte, an
\* overlong form, a surrogate, a code point above U+10FFFF).
RECURSIVE decode(_)
decode(b) ==
    IF b = <<>> THEN [ok |-> TRUE, text |-> <<>>]
    ELSE
    LET b0 == b[1]
        n == Len(b)
        size == IF b0 < 128 THEN 1
                ELSE IF b0 >= 194 /\ b0 <= 223 THEN 2
                ELSE IF b0 >= 224 /\ b0 <= 239 THEN 3
                ELSE IF b0 >= 240 /\ b0 <= 244 THEN 4
                ELSE 0
        valid ==
            /\ size > 0
            /\ n >= size
            /\ \A k \in 2..size : IsCont(b[k])
            /\ (b0 = 224 => b[2] >= 160)
            /\ (b0 = 237 => b[2] <= 159)
            /\ (b0 = 240 => b[2] >= 144)
            /\ (b0 = 244 => b[2] <= 143)
        cp == IF size = 1 THEN b0
              ELSE IF size = 2 THEN (b0 - 192) * 64 + (b[2] - 128)
              ELSE IF size = 3
                   THEN (b0 - 224) * 4096 + (b[2] - 128) * 64 + (b[3] - 128)
              ELSE (b0 - 240) * 262144 + (b[2] - 128) * 4096
                   + (b[3] - 128) * 64 + (b[4] - 128)
    IN IF ~valid THEN [ok |-> FALSE, text |-> <<>>]
       ELSE LET rest == decode(SubSeq(b, size + 1, n))
            IN IF rest.ok
               THEN [ok |-> TRUE, text |-> <<cp>> \o rest.text]
               ELSE rest

\* str.isspace() of one code point: what str.strip() removes.
IsSpace(c) ==
    \/ c \in 9..13
    \/ c \in 28..32
    \/ c \in {133, 160, 5760, 8232, 8233, 8239, 8287, 12288}
    \/ c \in 8192..8202

RECURSIVE lstrip(_)
lstrip(s) ==
    IF s # <<>> /\ IsSpace(s[1]) THEN lstrip(Tail(s)) ELSE s

RECURSIVE rstrip(_)
rstrip(s) ==
    IF s # <<>> /\ IsSpace(s[Len(s)]) THEN rstrip(SubSeq(s, 1, Len(s) - 1))
    ELSE s

strip(s) == rstrip(lstrip(s))

-----------------------------------------------------------------------------
(* Records and failures.                                                   *)

LogEntry(hash_short, date, author_name, subject) ==
    [hash_short |-> hash_short, date |-> date,
     author_name |-> author_name, subject |-> subject]

CommitDetails(hash, date, author_name, author_email, subject, body, short_stat, diff) ==
    [hash |-> hash, date |-> date, author_name |-> author_name,
     author_email |-> author_email, subject |-> subject, body |-> body,
     short_stat |-> short_stat, diff |-> diff]

GitCommandError(command, code, stderr) ==
    [command |-> command, return_code |-> code, stderr |-> stderr]

\* What a call ends with: a returned value, or an exception and its kind.
Returned(v) == [kind |-> "ok", value |-> v]
Raise(kind) == [kind |-> kind, value |-> <<>>]
RaiseGit(error) == [kind |-> "GitCommandError", value |-> error]

\* A finished subprocess as subprocess.check_output sees it: found is FALSE
\* when the executable does not exist (check_output raises FileNotFoundError
\* itself), else returncode and the captured stdout+stderr.
Process(found, returncode, output) ==
    [found |-> found, returncode |-> returncode, output |-> output]

\* except subprocess.CalledProcessError as error: raise GitCommandError(...)
\* The message is error.output.decode(), which can fail on its own.
CalledProcessError(command, p) ==
    LET text == decode(p.output) IN
    IF text.ok THEN RaiseGit(GitCommandError(command, p.returncode, text.text))
    ELSE Raise("UnicodeDecodeError")

-----------------------------------------------------------------------------
(* git_log                                                                 *)

log_info_count == 4
show_info_count == 7

\* A forgotten maxsplit: every NUL cuts.
split_info_unlimited(data, info_count) == Split(data, NUL, Len(data))

\* data.split(b"\x00", maxsplit=info_count - 1)
split_info(data, info_count) == Split(data, NUL, info_count - 1)

\* [info.decode("utf-8") for info in split_info]: [ok, text], text the
\* sequence of the decoded fields.
RECURSIVE decode_all(_)
decode_all(infos) ==
    IF infos = <<>> THEN [ok |-> TRUE, text |-> <<>>]
    ELSE LET d == decode(Head(infos)) IN
         IF ~d.ok THEN [ok |-> FALSE, text |-> <<>>]
         ELSE LET rest == decode_all(Tail(infos)) IN
              IF rest.ok THEN [ok |-> TRUE, text |-> <<d.text>> \o rest.text]
              ELSE rest

\* entries.insert(0, ...) in place of entries.append(...).
log_append_front(done, entry) == <<entry>> \o done

\* entries.append(LogEntry(...))
log_append(done, entry) == Append(done, entry)

\* The loop over output.splitlines(), from the entries built so far.
RECURSIVE log_lines(_, _)
log_lines(lines, done) ==
    IF lines = <<>> THEN Returned(done)
    ELSE LET info == split_info(Head(lines), log_info_count) IN
         IF Len(info) # log_info_count THEN Raise("AssertionError")
         ELSE LET d == decode_all(info) IN
              IF ~d.ok THEN Raise("UnicodeDecodeError")
              ELSE log_lines(Tail(lines),
                             log_append(done,
                                        LogEntry(d.text[1], d.text[2],
                                                 d.text[3], d.text[4])))

git_log(p) ==
    IF ~p.found THEN Raise("FileNotFoundError")
    ELSE IF p.returncode # 0 THEN CalledProcessError("log", p)
    ELSE log_lines(splitlines(p.output), <<>>)

-----------------------------------------------------------------------------
(* git_show                                                                *)

\* diff_info.lstrip() left out.
show_diff_info_raw(text) == text

\* diff_info = diff_info.lstrip()
show_diff_info(text) == lstrip(text)

\* short_stat, diff = diff_info.split("\n", maxsplit=1); diff = diff.strip()
\* Unpacking fewer than two parts raises ValueError.
show_stat_and_diff(f) ==
    LET parts == Split(show_diff_info(f[7]), LF, 1) IN
    IF Len(parts) # 2 THEN Raise("ValueError")
    ELSE Returned(CommitDetails(f[1], f[2], f[3], f[4], f[5], f[6],
                                parts[1], strip(parts[2])))

git_show(commit_hash, p) ==
    IF ~p.found THEN Raise("FileNotFoundError")
    ELSE IF p.returncode # 0 THEN CalledProcessError("show", p)
    ELSE LET info == split_info(p.output, show_info_count) IN
         IF Len(info) # show_info_count THEN Raise("AssertionError")
         ELSE LET d == decode_all(info) IN
              IF ~d.ok THEN Raise("UnicodeDecodeError")
              ELSE show_stat_and_diff(d.text)

-----------------------------------------------------------------------------
(* The simulated external tool.                                            *)
(*                                                                         *)
(* sim says what the tool prints: for `log`, lines of NUL-joined fields;   *)
(* for `show`, metadata fields each closed by a NUL (the format string     *)
(* ends with %x00) and then the trailing stat+diff text; for a failing     *)
(* run, the diagnostic text.                                               *)

RECURSIVE Join(_, _)
Join(parts, sep) ==
    IF parts = <<>> THEN <<>>
    ELSE IF Len(parts) = 1 THEN parts[1]
    ELSE parts[1] \o <<sep>> \o Join(Tail(parts), sep)

RECURSIVE Flatten(_)
Flatten(parts) ==
    IF parts = <<>> THEN <<>> ELSE Head(parts) \o Flatten(Tail(parts))

RECURSIVE Closed(_, _)
Closed(parts, sep) ==
    IF parts = <<>> THEN <<>>
    ELSE Head(parts) \o <<sep>> \o Closed(Tail(parts), sep)

\* "--format=format:" + "%x00".join(format_placeholders), one line a commit
RenderLog(lines) == Join([i \in 1..Len(lines) |-> Join(lines[i], NUL)], LF)

\* "--format=format:" + "%x00".join(format_placeholders) + "%x00", then
\* what --shortstat --patch print
RenderShow(fields, tail) == Closed(fields, NUL) \o tail

Sim(cmd, found, returncode, lines, tail) ==
    [cmd |-> cmd, found |-> found, returncode |-> returncode,
     lines |-> lines, tail |-> tail]

Output(s) ==
    IF ~s.found THEN <<>>
    ELSE IF s.returncode # 0 THEN s.tail
    ELSE IF s.cmd = "log" THEN RenderLog(s.lines)
    ELSE RenderShow(s.lines[1], s.tail)

ProcessOf(s) == Process(s.found, s.returncode, Output(s))

\* The values the i-th field of a simulated log line takes: a hash, a date
\* (or a byte that is no UTF-8), an author (empty, or U+00E9 encoded), a
\* subject (or one ending with a carriage return), and then whatever extra
\* fields hold.
LogField(i) ==
    CASE i = 1 -> {<<104>>}
      [] i = 2 -> {<<100>>, <<255>>}
      [] i = 3 -> {<<>>, <<195, 169>>}
      [] i = 4 -> {<<115>>, <<115, 13>>}
      [] i = 5 -> {<<>>, <<120>>}
      [] OTHER -> {<<121>>}

RECURSIVE LogLines(_)
LogLines(k) ==
    IF k = 0 THEN {<<>>}
    ELSE {Append(l, f) : l \in LogLines(k - 1), f \in LogField(k)}

AllLogLines == UNION {LogLines(k) : k \in 0..MaxFields}

LogOutputs == UNION {[1..n -> AllLogLines] : n \in 0..MaxLines}

\* The values the i-th metadata field of a simulated show output takes; the
\* sixth is the body: empty, two lines with a tab, U+00E9, or no UTF-8.
ShowField(i) ==
    CASE i = 1 -> {<<72>>}
      [] i = 2 -> {<<100>>}
      [] i = 3 -> {<<>>, <<195, 169>>}
      [] i = 4 -> {<<101>>}
      [] i = 5 -> {<<115>>}
      [] OTHER -> {<<>>, <<98, 10, 9, 98>>, <<195, 169>>, <<255>>}

RECURSIVE ShowFields(_)
ShowFields(k) ==
    IF k = 0 THEN {<<>>}
    ELSE {Append(l, f) : l \in ShowFields(k - 1), f \in ShowField(k)}

AllShowFields == UNION {ShowFields(k) : k \in 0..(show_info_count - 1)}

\* The trailing text is built of these: NUL, LF, space, `a`, U+00E9, and
\* two lines `a`.
TailChunk == {<<0>>, <<10>>, <<32>>, <<97>>, <<195, 169>>, <<97, 10, 97>>}

ShowTails == {Flatten(c) : c \in UNION {[1..n -> TailChunk] : n \in 0..MaxTail}}

ErrorTexts == {<<>>, <<102, 10>>, <<195, 169>>, <<255>>}
ErrorCodes == {2, 128}

-----------------------------------------------------------------------------
(* SpecSource: one call of git_log or git_show on a simulated tool.        *)

\* The screen as composed and not yet mounted: no entries, no details, the
\* diff pane an empty Static titled "Diff" (compose, CommitDetailsView).
Composed ==
    /\ entries = <<>> /\ options = <<>> /\ highlighted = 0 /\ queue = <<>>
    /\ commit_details = None /\ theme = "monokai" /\ diff_text = <<>>
    /\ diff_warning = FALSE /\ diff_title = None
    /\ view_title = [prefix |-> "Diff", text |-> <<>>]
    /\ return_code = None /\ exit_status = None
    /\ calls = <<>> /\ handled = <<>> /\ fetched = None /\ raised = None

SourceInit ==
    /\ pc = "ready"
    /\ \/ \E l \in LogOutputs : sim = Sim("log", TRUE, 0, l, <<>>)
       \/ \E f \in AllShowFields, t \in ShowTails :
              sim = Sim("show", TRUE, 0, <<f>>, t)
       \/ \E c \in {"log", "show"}, rc \in ErrorCodes, t \in ErrorTexts :
              sim = Sim(c, TRUE, rc, <<>>, t)
       \/ \E c \in {"log", "show"} : sim = Sim(c, FALSE, 0, <<>>, <<>>)
    /\ run = ProcessOf(sim)
    /\ result = None
    /\ Composed

SourceGitLog ==
    /\ pc = "ready"
    /\ sim.cmd = "log"
    /\ result' = git_log(run)
    /\ pc' = "done"
    /\ UNCHANGED <<sim, run, entries, options, highlighted, queue,
                   commit_details, theme, diff_text, diff_warning,
                   diff_title, view_title, return_code, exit_status, calls,
                   handled, fetched, raised>>

SourceGitShow ==
    /\ pc = "ready"
    /\ sim.cmd = "show"
    /\ result' = git_show(<<72>>, run)
    /\ pc' = "done"
    /\ UNCHANGED <<sim, run, entries, options, highlighted, queue,
                   commit_details, theme, diff_text, diff_warning,
                   diff_title, view_title, return_code, exit_status, calls,
                   handled, fetched, raised>>

SourceNext == SourceGitLog \/ SourceGitShow

SpecSource == SourceInit /\ [][SourceNext]_vars

-----------------------------------------------------------------------------
(* Claims about git_log and git_show (SpecSource).                         *)

Has(s, c) == \E i \in 1..Len(s) : s[i] = c

Count(s, c) == Cardinality({i \in 1..Len(s) : s[i] = c})

Ran(cmd) == pc = "done" /\ sim.cmd = cmd /\ sim.found /\ sim.returncode = 0

\* A field of a well-formed line: text with no NUL and no line break.
PlainField(f) == decode(f).ok /\ ~Has(f, NUL) /\ ~Has(f, LF) /\ ~Has(f, CR)

WellFormedLine(l) ==
    Len(l) = log_info_count /\ \A i \in 1..Len(l) : PlainField(l[i])

EntryOf(l) ==
    LogEntry(decode(l[1]).text, decode(l[2]).text,
             decode(l[3]).text, decode(l[4]).text)

\* C1: for an output of N >= 0 well-formed lines (4 NUL-joined fields
\* each), git_log returns exactly N entries, in the order of the lines, the
\* i-th made of the 4 decoded fields of the i-th line.
C1_ListCommits ==
    (Ran("log") /\ \A i \in 1..Len(sim.lines) : WellFormedLine(sim.lines[i]))
    => /\ result.kind = "ok"
       /\ Len(result.value) = Len(sim.lines)
       /\ \A i \in 1..Len(sim.lines) : result.value[i] = EntryOf(sim.lines[i])

C1_Witness ==
    /\ Ran("log")
    /\ Len(sim.lines) = 2
    /\ WellFormedLine(sim.lines[1]) /\ WellFormedLine(sim.lines[2])
    /\ sim.lines[1] # sim.lines[2]
    /\ result.kind = "ok"
    /\ Len(result.value) = 2

\* The show output is a record in the wire format: 6 plain metadata fields
\* (the body may hold line breaks) and a trailing text with no NUL.
ShowPayload ==
    /\ Ran("show")
    /\ Len(sim.lines[1]) = show_info_count - 1
    /\ \A i \in 1..Len(sim.lines[1]) :
           decode(sim.lines[1][i]).ok /\ ~Has(sim.lines[1][i], NUL)
    /\ decode(sim.tail).ok /\ ~Has(sim.tail, NUL)

Meta(i) == decode(sim.lines[1][i]).text
TailText == decode(sim.tail).text

\* A short stat or a diff the decoder is not asked to trim: no white space
\* at either end.
Trimmed(s) == s = <<>> \/ (~IsSpace(s[1]) /\ ~IsSpace(s[Len(s)]))

\* C2: decoding the payload of a record (6 fields joined by NUL, one more
\* NUL, then short stat + newline + diff) gives the record back, field by
\* field, also when the short stat, the diff or the body is empty. The
\* record is read off the payload: the short stat is the text up to the
\* first newline of the trailing text.
C2_RoundTrip ==
    (ShowPayload /\ Has(TailText, LF))
    => LET k == Find(TailText, LF)
           short_stat == SubSeq(TailText, 1, k - 1)
           diff == SubSeq(TailText, k + 1, Len(TailText))
       IN (Trimmed(short_stat) /\ Trimmed(diff))
          => result = Returned(CommitDetails(Meta(1), Meta(2), Meta(3),
                                             Meta(4), Meta(5), Meta(6),
                                             short_stat, diff))

\* C3: a show output whose trailing segment is empty, or holds no newline
\* at all, does not make git_show fail.
C3_EmptyTrailing ==
    (ShowPayload /\ ~Has(TailText, LF)) => result.kind = "ok"

\* The lines git_log is to read, when no field holds a line break: a final
\* empty line is the mark of a closing line break, not a line.
LinesRead ==
    IF sim.lines # <<>> /\ Join(sim.lines[Len(sim.lines)], NUL) = <<>>
    THEN SubSeq(sim.lines, 1, Len(sim.lines) - 1)
    ELSE sim.lines

\* No field of the simulated log holds a line break of its own.
NoBreaks ==
    \A i \in 1..Len(sim.lines) : \A j \in 1..Len(sim.lines[i]) :
        ~Has(sim.lines[i][j], LF) /\ ~Has(sim.lines[i][j], CR)

\* The number of NUL-delimited segments of a byte string.
Segments(b) == Count(b, NUL) + 1

LineOk(l) ==
    Segments(Join(l, NUL)) >= log_info_count /\ decode(Join(l, NUL)).ok

\* C4 as stated: a log line of fewer or more than 4 segments, and a show
\* output of other than 7 segments, never yields a record.
C4_AnyOtherCountFails ==
    /\ (Ran("log") /\ NoBreaks
        /\ \E i \in 1..Len(LinesRead) :
               Segments(Join(LinesRead[i], NUL)) # log_info_count)
       => result.kind # "ok"
    /\ (Ran("show") /\ Segments(run.output) # show_info_count)
       => result.kind # "ok"

\* C4, amended: fewer segments than expected (4 a log line, 7 a show
\* output) never yield a record; git_show fails its assertion, and so does
\* git_log at the first such line unless a line before it is no UTF-8.
\* More segments than expected are no failure: the split makes at most 3
\* (6) cuts and the NULs beyond stay in the last field, so a log of lines
\* of 4 or more segments gives one entry a line, the subject holding the
\* rest of the line, and a show output of 7 or more segments never fails
\* the assertion.
C4_FewerSegmentsFail ==
    /\ (Ran("log") /\ NoBreaks
        /\ \E i \in 1..Len(LinesRead) :
               Segments(Join(LinesRead[i], NUL)) < log_info_count)
       => LET first == CHOOSE i \in 1..Len(LinesRead) :
                  /\ Segments(Join(LinesRead[i], NUL)) < log_info_count
                  /\ \A j \in 1..(i - 1) :
                         Segments(Join(LinesRead[j], NUL)) >= log_info_count
          IN /\ result.kind # "ok"
             /\ (\A j \in 1..(first - 1) : LineOk(LinesRead[j]))
                => result.kind = "AssertionError"
    /\ (Ran("log") /\ NoBreaks
        /\ \A i \in 1..Len(LinesRead) : LineOk(LinesRead[i]))
       => /\ result.kind = "ok"
          /\ Len(result.value) = Len(LinesRead)
          /\ \A i \in 1..Len(LinesRead) :
                 /\ result.value[i].hash_short = decode(LinesRead[i][1]).text
                 /\ result.value[i].subject
                    = decode(Join(SubSeq(LinesRead[i], log_info_count,
                                         Len(LinesRead[i])), NUL)).text
    /\ (Ran("show") /\ Segments(run.output) < show_info_count)
       => result.kind = "AssertionError"
    /\ (Ran("show") /\ Segments(run.output) >= show_info_count)
       => /\ result.kind # "AssertionError"
          /\ (result.kind = "ok" /\ Len(sim.lines[1]) = show_info_count - 1)
             => Count(result.value.short_stat, NUL)
                + Count(result.value.diff, NUL) = Count(sim.tail, NUL)

C4_Witness ==
    /\ Ran("log")
    /\ Len(LinesRead) = 2
    /\ Len(LinesRead[1]) = log_info_count + 1
    /\ Len(LinesRead[2]) = log_info_count - 1
    /\ result.kind = "AssertionError"

\* C6: every call ends with a returned value, a GitCommandError or the
\* assertion failure; a tool that is missing or exits non-zero ends it with
\* GitCommandError.
C6_OnlyTwoFailures ==
    pc = "done"
    => /\ result.kind \in {"ok", "GitCommandError", "AssertionError"}
       /\ (~sim.found \/ sim.returncode # 0)
          => result.kind = "GitCommandError"

-----------------------------------------------------------------------------
(* CommitDiffView                                                          *)

MAX_DIFF_CHARS == 100000

\* An off-by-one slice: commit.diff[: self.MAX_DIFF_CHARS - 1]
truncated_diff_short(diff) ==
    SubSeq(diff, 1, Min(Len(diff), MAX_DIFF_CHARS - 1))

\* truncated_diff = commit.diff[: self.MAX_DIFF_CHARS]
truncated_diff(diff) == SubSeq(diff, 1, Min(Len(diff), MAX_DIFF_CHARS))

\* diff_exceeds_max = len(commit.diff) > self.MAX_DIFF_CHARS
diff_exceeds_max(diff) == Len(diff) > MAX_DIFF_CHARS

\* CommitDiffView._update_syntax_content: the new code of the Syntax, the
\* class -warning-max-diff and the border title of the Static. It only
\* reads the record.
update_syntax_content(commit) ==
    [text |-> truncated_diff(commit.diff),
     warning |-> diff_exceeds_max(commit.diff),
     title |-> IF diff_exceeds_max(commit.diff)
               THEN Some("Large commit: diff truncated")
               ELSE None]

\* CommitDetailsView.commit_details = commit, the value being bound to the
\* panes: CommitDiffView.watch_commit_details runs when the value differs
\* from the one held, and returns at once for None (the info and message
\* panes are not modelled).
SetCommitDetails(commit) ==
    /\ commit_details' = commit
    /\ IF commit = commit_details \/ commit = None
       THEN UNCHANGED <<diff_text, diff_warning, diff_title, view_title>>
       ELSE LET u == update_syntax_content(commit) IN
            /\ diff_text' = u.text
            /\ diff_warning' = u.warning
            /\ diff_title' = u.title
            /\ view_title' = [prefix |-> "Diff: ", text |-> commit.short_stat]

\* CommitDiffView._retheme, told whether the new theme of the app is dark:
\* watch_theme renders again when the syntax theme changes.
Retheme(dark) ==
    LET new == IF dark THEN "monokai" ELSE "default" IN
    /\ theme' = new
    /\ IF new = theme \/ commit_details = None
       THEN UNCHANGED <<diff_text, diff_warning, diff_title>>
       ELSE LET u == update_syntax_content(commit_details) IN
            /\ diff_text' = u.text
            /\ diff_warning' = u.warning
            /\ diff_title' = u.title
    /\ UNCHANGED view_title

-----------------------------------------------------------------------------
(* SpecView: the diff pane shown records whose diff is short, or about as  *)
(* long as the threshold.                                                  *)

RECURSIVE Texts(_, _)
Texts(alphabet, n) ==
    IF n = 0 THEN {<<>>}
    ELSE Texts(alphabet, n - 1)
         \cup {Append(t, c) : t \in Texts(alphabet, n - 1), c \in alphabet}

\* A diff of n characters: `+`, then `a`s, the last character `b`.
LongDiff(n) == [i \in 1..n |-> IF i = 1 THEN 43 ELSE IF i = n THEN 98 ELSE 97]

ViewDiffs ==
    Texts({43, 10}, MaxSmall)
    \cup {LongDiff(n) : n \in (MAX_DIFF_CHARS - 1)..(MAX_DIFF_CHARS + MaxOver)}

ViewStats == {<<>>, <<49>>, <<50>>}

ViewInit ==
    /\ pc = "view"
    /\ sim = None /\ run = None /\ result = None
    /\ Composed

\* The screen publishes the record git_show returned.
ViewShow ==
    /\ pc = "view"
    /\ \E diff \in ViewDiffs, stat \in ViewStats :
           LET commit == CommitDetails(<<72>>, <<100>>, <<>>, <<101>>,
                                       <<115>>, <<>>, stat, diff)
           IN /\ fetched' = commit
              /\ SetCommitDetails(commit)
    /\ UNCHANGED <<pc, sim, run, result, entries, options, highlighted,
                   queue, theme, return_code, exit_status, calls, handled,
                   raised>>

ViewRetheme ==
    /\ pc = "view"
    /\ \E dark \in BOOLEAN : Retheme(dark)
    /\ UNCHANGED <<pc, sim, run, result, entries, options, highlighted, queue,
                   commit_details, return_code, exit_status, calls, handled,
                   fetched, raised>>

ViewNext == ViewShow \/ ViewRetheme

SpecView == ViewInit /\ [][ViewNext]_vars

\* C7: a diff longer than MAX_DIFF_CHARS is shown cut to its first
\* MAX_DIFF_CHARS characters with the warning set, and the record held keeps
\* the whole diff; a diff of at most MAX_DIFF_CHARS characters is shown
\* whole, with no warning.
C7_Truncation ==
    commit_details # None
    => /\ commit_details = fetched
       /\ IF Len(fetched.diff) > MAX_DIFF_CHARS
          THEN /\ Len(diff_text) = MAX_DIFF_CHARS
               /\ diff_text = SubSeq(fetched.diff, 1, MAX_DIFF_CHARS)
               /\ diff_warning
               /\ diff_title = Some("Large commit: diff truncated")
          ELSE /\ diff_text = fetched.diff
               /\ ~diff_warning
               /\ diff_title = None

C7_Witness ==
    /\ commit_details # None
    /\ Len(commit_details.diff) = MAX_DIFF_CHARS + 1
    /\ commit_details.diff[MAX_DIFF_CHARS + 1] = 98
    /\ Len(diff_text) = MAX_DIFF_CHARS
    /\ diff_text[MAX_DIFF_CHARS] = 97
    /\ diff_warning

-----------------------------------------------------------------------------
(* LogView, LogScreen and run: a session.                                  *)

\* The OptionHighlighted message of option i (1-based here).
OptionHighlighted(ids, i) == [option_index |-> i, option_id |-> ids[i]]

\* The options are added and nothing is highlighted.
watch_entries_no_highlight(new_entries, opts, hl, q) ==
    IF new_entries = <<>>
    THEN [options |-> opts, highlighted |-> hl, queue |-> q]
    ELSE [options |-> opts \o [i \in 1..Len(new_entries) |-> new_entries[i].hash_short],
          highlighted |-> hl, queue |-> q]

\* LogView.watch_entries: nothing for no entries; else one option an entry,
\* its id the short hash, and the first one highlighted, which posts
\* OptionHighlighted.
watch_entries(new_entries, opts, hl, q) ==
    IF new_entries = <<>>
    THEN [options |-> opts, highlighted |-> hl, queue |-> q]
    ELSE LET ids == opts \o [i \in 1..Len(new_entries) |-> new_entries[i].hash_short]
         IN [options |-> ids, highlighted |-> 1,
             queue |-> Append(q, OptionHighlighted(ids, 1))]

\* The hash is read off the list's cursor, not off the message.
event_commit_hash_of_cursor(event, opts, hl) == opts[hl]

\* commit_hash = event.option_id
event_commit_hash(event, opts, hl) == event.option_id

\* The details are cleared when the fetch fails.
details_after_cleared(r, details) == IF r.kind = "ok" THEN r.value ELSE None

\* commit_details_view.commit_details = git_show(commit_hash): assigned
\* when git_show returns, left alone when it raises.
details_after(r, details) == IF r.kind = "ok" THEN r.value ELSE details

\* How a handler's call ends for the app: app.exit(return_code=...) on
\* GitCommandError; any other exception is not caught by the screen and
\* ends the app with the toolkit's return code for an unhandled exception,
\* 1 (the guide run() cites); else the session goes on.
AfterCall(r) ==
    IF r.kind = "ok"
    THEN [pc |-> "running", return_code |-> return_code, raised |-> raised]
    ELSE IF r.kind = "GitCommandError"
    THEN [pc |-> "exiting", return_code |-> Some(r.value.return_code),
          raised |-> Some(r.value)]
    ELSE [pc |-> "crashed", return_code |-> Some(1), raised |-> raised]

\* The repository of a session: commit i has the short hash `h<i>` and the
\* full hash `H<i>`, the newest first.
HashShort(i) == <<104, 48 + i>>
HashFull(i) == <<72, 48 + i>>

SessionErrors(cmd) ==
    {Sim(cmd, TRUE, rc, <<>>, t) : rc \in ErrorCodes, t \in ErrorTexts}
    \cup {Sim(cmd, FALSE, 0, <<>>, <<>>)}

\* What `git log` may do in a session: list the first n commits, print a
\* line of 3 fields, fail, or be missing.
SessionLogs ==
    {Sim("log", TRUE, 0,
         [i \in 1..n |-> <<HashShort(i), <<100>>, <<>>, <<115>>>>], <<>>) :
         n \in 0..MaxCommits}
    \cup {Sim("log", TRUE, 0, <<<<HashShort(1), <<100>>, <<>>>>>>, <<>>)}
    \cup SessionErrors("log")

\* What `git show <commit_hash>` may do: print the commit with one of two
\* patches, or with no stat and no patch, or too few fields, fail, or be
\* missing.
SessionShows(commit_hash) ==
    {Sim("show", TRUE, 0,
         <<<<HashFull(i), <<100>>, <<>>, <<101>>, <<115>>, <<>>>>>>, t) :
         i \in {j \in 1..MaxCommits : decode(HashShort(j)).text = commit_hash},
         t \in {<<32, 49, 10, 43>>, <<32, 49, 10, 45>>, <<>>}}
    \cup {Sim("show", TRUE, 0, <<<<HashFull(1), <<100>>>>>>, <<>>)}
    \cup SessionErrors("show")

Init ==
    /\ pc = "start"
    /\ sim = None /\ run = None /\ result = None
    /\ Composed

\* LogScreen.on_mount
OnMount ==
    /\ pc = "start"
    /\ \E s \in SessionLogs :
           LET p == ProcessOf(s)
               r == git_log(p)
               after == AfterCall(r)
               w == watch_entries(IF r.kind = "ok" THEN r.value ELSE <<>>,
                                  options, highlighted, queue)
           IN /\ sim' = s /\ run' = p /\ result' = r
              /\ calls' = Append(calls, [cmd |-> "log", arg |-> <<>>])
              /\ entries' = IF r.kind = "ok" THEN r.value ELSE entries
              /\ options' = w.options
              /\ highlighted' = w.highlighted
              /\ queue' = w.queue
              /\ pc' = after.pc
              /\ return_code' = after.return_code
              /\ raised' = after.raised
    /\ UNCHANGED <<commit_details, theme, diff_text, diff_warning,
                   diff_title, view_title, exit_status, handled, fetched>>

\* LogView: a key of BINDINGS (or the mouse) moves the cursor to another
\* option, which posts OptionHighlighted.
MoveCursor ==
    /\ pc = "running"
    /\ Len(handled) + Len(queue) < 1 + MaxMoves
    /\ \E i \in 1..Len(options) :
           /\ i # highlighted
           /\ highlighted' = i
           /\ queue' = Append(queue, OptionHighlighted(options, i))
    /\ UNCHANGED <<pc, sim, run, result, entries, options, commit_details,
                   theme, diff_text, diff_warning, diff_title, view_title,
                   return_code, exit_status, calls, handled, fetched,
                   raised>>

\* LogScreen.update_commit_details_view, on the oldest message posted
UpdateCommitDetailsView ==
    /\ pc = "running"
    /\ queue # <<>>
    /\ LET event == Head(queue)
           commit_hash == event_commit_hash(event, options, highlighted)
       IN \E s \in SessionShows(commit_hash) :
              LET p == ProcessOf(s)
                  r == git_show(commit_hash, p)
                  after == AfterCall(r)
              IN /\ sim' = s /\ run' = p /\ result' = r
                 /\ queue' = Tail(queue)
                 /\ handled' = Append(handled, event)
                 /\ calls' = Append(calls, [cmd |-> "show", arg |-> commit_hash])
                 /\ fetched' = IF r.kind = "ok" THEN r.value ELSE fetched
                 /\ SetCommitDetails(details_after(r, commit_details))
                 /\ pc' = after.pc
                 /\ return_code' = after.return_code
                 /\ raised' = after.raised
    /\ UNCHANGED <<entries, options, highlighted, theme, exit_status>>

\* CommitDiffView._retheme, when the theme of the app changes
AppRetheme ==
    /\ pc = "running"
    /\ \E dark \in BOOLEAN : Retheme(dark)
    /\ UNCHANGED <<pc, sim, run, result, entries, options, highlighted, queue,
                   commit_details, return_code, exit_status, calls, handled,
                   fetched, raised>>

\* The user quits: app.run() returns with the return code 0.
Quit ==
    /\ pc = "running"
    /\ pc' = "exiting"
    /\ return_code' = Some(0)
    /\ UNCHANGED <<sim, run, result, entries, options, highlighted, queue,
                   commit_details, theme, diff_text, diff_warning,
                   diff_title, view_title, exit_status, calls, handled,
                   fetched, raised>>

\* run: sys.exit(app.return_code or 0)
RunExit ==
    /\ pc \in {"exiting", "crashed"}
    /\ exit_status' = IF return_code = None THEN Some(0) ELSE return_code
    /\ pc' = "done"
    /\ UNCHANGED <<sim, run, result, entries, options, highlighted, queue,
                   commit_details, theme, diff_text, diff_warning,
                   diff_title, view_title, return_code, calls, handled,
                   fetched, raised>>

Next ==
    \/ OnMount
    \/ MoveCursor
    \/ UpdateCommitDetailsView
    \/ AppRetheme
    \/ Quit
    \/ RunExit

Spec == Init /\ [][Next]_vars

-----------------------------------------------------------------------------
(* Claims about the session (Spec).                                        *)

ShowCalls == SelectSeq(calls, LAMBDA c : c.cmd = "show")
LogCalls == SelectSeq(calls, LAMBDA c : c.cmd = "log")

\* The messages posted so far, in order.
Posted == handled \o queue

\* C5: when an invocation of the tool exits with a non-zero code c, a
\* GitCommandError with the subcommand, the code c and the captured text
\* is raised, and the process ends with the exit status c.
C5_ExitStatus ==
    (pc = "done" /\ run # None /\ run.found /\ run.returncode # 0)
    => /\ exit_status = Some(run.returncode)
       /\ raised # None
       /\ raised[1].command = sim.cmd
       /\ raised[1].return_code = run.returncode
       /\ decode(run.output).ok
       /\ raised[1].stderr = decode(run.output).text

\* C8: the git_show invocations are, in order, those of the messages
\* handled, one each and for the id the message carries, whether or not
\* the id was shown before; none is made for an id no message carried, and
\* a message is handled only when the invocation for the one before it is
\* over (the handler is one step).
C8_OneFetchPerSelection ==
    /\ Len(ShowCalls) = Len(handled)
    /\ \A i \in 1..Len(handled) : ShowCalls[i].arg = handled[i].option_id
    /\ \A i \in 1..Len(Posted) :
           Posted[i].option_index \in 1..Len(options)
           /\ Posted[i].option_id = options[Posted[i].option_index]

\* The first commit was shown, then another, then the first again: three
\* messages, three invocations.
C8_Witness ==
    /\ Len(handled) = 3
    /\ handled[1].option_id = handled[3].option_id
    /\ handled[1].option_id # handled[2].option_id
    /\ Len(ShowCalls) = 3
    /\ highlighted = handled[3].option_index
    /\ result.kind = "ok"

OkShows == Len(ShowCalls) - (IF ShowCalls # <<>> /\ result.kind # "ok" THEN 1 ELSE 0)

C9_Published ==
    /\ commit_details = fetched
    /\ (commit_details = None) <=> (OkShows = 0)
    /\ (ShowCalls # <<>> /\ result.kind = "ok") => commit_details = result.value

\* C9: the details published are none while no fetch has succeeded, and
\* else the record git_show returned for the last message whose fetch
\* succeeded; once published they are never none again, and a fetch that
\* fails leaves them as they were.
C9_IdleOrShowing ==
    /\ []C9_Published
    /\ [][commit_details # None => commit_details' # None]_vars
    /\ [][(result'.kind = "GitCommandError") => commit_details' = commit_details]_vars

\* A fetch failed after two others had published their records.
C9_Witness ==
    /\ pc = "exiting"
    /\ result.kind = "GitCommandError"
    /\ result.value.command = "show"
    /\ Len(ShowCalls) = 3
    /\ commit_details # None
    /\ commit_details.hash = decode(HashFull(2)).text

\* C10: git_log is invoked once, first; when it returns entries there is
\* one option an entry and the first message posted, and so the first
\* git_show invocation, is for the first entry, the newest commit; when it
\* returns none there is no option, no message, no git_show invocation and
\* no details.
C10_Startup ==
    /\ pc # "start" => (Len(LogCalls) = 1 /\ calls[1].cmd = "log")
    /\ pc = "start" => calls = <<>>
    /\ entries # <<>>
       => /\ Len(options) = Len(entries)
          /\ \A i \in 1..Len(entries) : options[i] = entries[i].hash_short
          /\ Posted # <<>>
          /\ Posted[1] = [option_index |-> 1, option_id |-> entries[1].hash_short]
          /\ ShowCalls # <<>> => ShowCalls[1].arg = entries[1].hash_short
    /\ entries = <<>>
       => /\ options = <<>> /\ highlighted = 0 /\ Posted = <<>>
          /\ ShowCalls = <<>> /\ commit_details = None

\* The newest of two commits was shown with no cursor move.
C10_Witness ==
    /\ Len(entries) = 2
    /\ Len(Posted) = 1
    /\ handled = <<[option_index |-> 1, option_id |-> entries[1].hash_short]>>
    /\ commit_details # None
    /\ commit_details.hash = decode(HashFull(1)).text

=============================================================================
